---- MODULE Spec2Model ----
(***************************************************************************)
(* Model of the action-specification subsystem of dataset-creation:        *)
(* the ACTION_CONFIG registry, build_action and parse_coordinates of       *)
(* action_config.py.  Python strings are TLA+ strings, read one character  *)
(* at a time with SubSeq; a Python call ends either with a returned value  *)
(* or with a raised exception, and both outcomes are recorded.             *)
(***************************************************************************)
EXTENDS Integers, Sequences, FiniteSets, TLC

VARIABLES pc, action_type, params, build_result, coord_input, parse_result,
          registry, callers, history,
          datasets, samples, next_id, sessions,
          entered, field_values,
          dataset, images, steps

\* the state of concurrent callers sharing the registry
callVars == <<registry, callers, history>>

\* the two MongoDB collections, the ids handed out, and the sessions using them
dbVars == <<datasets, samples, next_id, sessions>>

\* the values of the form's widgets, and the dict the form fills from them
formVars == <<entered, field_values>>

\* the list and the image files of a WorkflowDatasetCreator, and the calls of
\* add_workflow_step made so far
workflowVars == <<dataset, images, steps>>

vars ==
    <<pc, action_type, params, build_result, coord_input, parse_result, callVars, dbVars,
      formVars, workflowVars>>

(***************************************************************************)
(* Bounds of the model.                                                    *)
(***************************************************************************)
\* longest generated parameter string
MaxValLen == 1
\* longest generated coordinate text
MaxLen == 4
\* number of concurrent callers of the registry
NumCallers == 2
\* number of documents inserted in a run, both collections together
MaxDocs == 4

\* the same where the calls of two sessions interleave
MaxConcDocs == 3

\* number of add_workflow_step calls in a run
MaxSteps == 3

(***************************************************************************)
(* Python values.                                                          *)
(***************************************************************************)
\* Python's None, and a present value, as a sequence of length 0 or 1
None == <<>>

Some(v) == <<v>>

\* a str held in a parameter mapping
PyS(str) == [t |-> "str", s |-> str, n |-> 0]

\* an int held in a parameter mapping (a pixel count)
PyI(int) == [t |-> "int", s |-> "", n |-> int]

\* truth value of a parameter: "" and 0 are falsy
Truthy(v) == IF v.t = "str" THEN v.s # "" ELSE v.n # 0

Digit(d) == SubSeq("0123456789", d + 1, d + 1)

RECURSIVE IntToStr(_)
\* str(n) for n >= 0
IntToStr(n) == IF n < 10 THEN Digit(n) ELSE IntToStr(n \div 10) \o Digit(n % 10)

\* what an f-string interpolation {v} renders
Format(v) == IF v.t = "str" THEN v.s ELSE IntToStr(v.n)

\* the outcome of a call: a returned value or a raised exception
Return(v) == [raised |-> FALSE, exc |-> "", value |-> v]

Raise(e) == [raised |-> TRUE, exc |-> e, value |-> None]

NotCalled == [raised |-> FALSE, exc |-> "not called", value |-> None]

(***************************************************************************)
(* Python string operations used by parse_coordinates.                     *)
(***************************************************************************)
Char(s, i) == SubSeq(s, i, i)

\* c in s, for a one-character c
Contains(s, c) == \E i \in 1..Len(s) : Char(s, i) = c

\* the characters str.strip() and str.split() treat as whitespace
Whitespace == {" ", "\t"}

RECURSIVE LStrip(_)
LStrip(s) ==
    IF Len(s) = 0 THEN s
    ELSE IF Char(s, 1) \in Whitespace THEN LStrip(SubSeq(s, 2, Len(s)))
    ELSE s

RECURSIVE RStrip(_)
RStrip(s) ==
    IF Len(s) = 0 THEN s
    ELSE IF Char(s, Len(s)) \in Whitespace THEN RStrip(SubSeq(s, 1, Len(s) - 1))
    ELSE s

\* s.strip()
Strip(s) == RStrip(LStrip(s))

\* length of the longest prefix of s holding no character of stop
RECURSIVE PrefixLen(_, _)
PrefixLen(s, stop) ==
    IF Len(s) = 0 \/ Char(s, 1) \in stop THEN 0
    ELSE 1 + PrefixLen(SubSeq(s, 2, Len(s)), stop)

\* Split as s.split(sep, 1) would be: only the first separator splits
Split_first_only(s, sep) ==
    LET k == PrefixLen(s, {sep})
    IN  IF k = Len(s) THEN <<s>>
        ELSE <<SubSeq(s, 1, k), SubSeq(s, k + 2, Len(s))>>

RECURSIVE Split(_, _)
\* s.split(sep) for a one-character sep: every separator splits
Split(s, sep) ==
    LET k == PrefixLen(s, {sep})
    IN  IF k = Len(s) THEN <<s>>
        ELSE <<SubSeq(s, 1, k)>> \o Split(SubSeq(s, k + 2, Len(s)), sep)

RECURSIVE SplitWhitespace(_)
\* s.split(): the maximal runs of non-whitespace characters
SplitWhitespace(s) ==
    LET t == LStrip(s)
        k == PrefixLen(t, Whitespace)
    IN  IF Len(t) = 0 THEN <<>>
        ELSE <<SubSeq(t, 1, k)>> \o SplitWhitespace(SubSeq(t, k + 1, Len(t)))

(***************************************************************************)
(* parse_coordinates (action_config.py:127-141).                           *)
(***************************************************************************)
\* the returned pair (first, second), second being a str or None
Pair(first, second) == [first |-> first, second |-> second]

NoPair == [first |-> "", second |-> None]

ParseReturn(first, second) == [raised |-> FALSE, exc |-> "", value |-> Pair(first, second)]

ParseRaise(e) == [raised |-> TRUE, exc |-> e, value |-> NoPair]

ParseNotCalled == [raised |-> FALSE, exc |-> "not called", value |-> NoPair]

\* parts[0].strip(), parts[1].strip() if len(parts) > 1 else None;
\* parts[0] of an empty list raises IndexError
FirstTwo(parts) ==
    IF Len(parts) = 0 THEN ParseRaise("IndexError")
    ELSE ParseReturn(Strip(parts[1]),
                     IF Len(parts) > 1 THEN Some(Strip(parts[2])) ELSE None)

\* parse_coordinates as it would be if the last branch returned the text as it is
parse_coordinates_unstripped(text) ==
    IF Contains(text, ",") THEN FirstTwo(Split(text, ","))
    ELSE IF Contains(text, " ") THEN FirstTwo(SplitWhitespace(text))
    ELSE ParseReturn(text, None)

\* parse_coordinates as it would be with the space tested before the comma
parse_coordinates_space_first(text) ==
    IF Contains(text, " ") THEN FirstTwo(SplitWhitespace(text))
    ELSE IF Contains(text, ",") THEN FirstTwo(Split(text, ","))
    ELSE ParseReturn(Strip(text), None)

parse_coordinates(text) ==
    IF Contains(text, ",") THEN FirstTwo(Split(text, ","))
    ELSE IF Contains(text, " ") THEN FirstTwo(SplitWhitespace(text))
    ELSE ParseReturn(Strip(text), None)

(***************************************************************************)
(* The registry ACTION_CONFIG (action_config.py:7-124).  A field is the    *)
(* record of the keys its dict holds; the template lambdas are the         *)
(* operator Template below.                                                *)
(***************************************************************************)
CoordField(name, label, placeholder) ==
    [name |-> name, type |-> "coordinate", label |-> label, placeholder |-> placeholder]

TextField(name, label, placeholder) ==
    [name |-> name, type |-> "text", label |-> label, placeholder |-> placeholder]

PointFields ==
    << CoordField("x", "X coordinate", "1710"), CoordField("y", "Y coordinate", "100") >>

RegionFields ==
    << CoordField("x1", "Start X", "100"), CoordField("y1", "Start Y", "100"),
       CoordField("x2", "End X", "500"), CoordField("y2", "End Y", "500") >>

\* ScrollFields as it would be with a default that is not one of the options
ScrollFields_default_not_an_option ==
    << CoordField("x", "X coordinate", "800"), CoordField("y", "Y coordinate", "600"),
       [name |-> "direction", type |-> "select", label |-> "Direction",
        options |-> <<"up", "down", "left", "right">>, default |-> "bottom"],
       TextField("pixels", "Pixels", "100") >>

ScrollFields ==
    << CoordField("x", "X coordinate", "800"), CoordField("y", "Y coordinate", "600"),
       [name |-> "direction", type |-> "select", label |-> "Direction",
        options |-> <<"up", "down", "left", "right">>, default |-> "down"],
       TextField("pixels", "Pixels", "100") >>

ACTION_CONFIG ==
    [ click |-> [description |-> "Single left click", fields |-> PointFields],
      left_double |-> [description |-> "Double left click", fields |-> PointFields],
      right_single |-> [description |-> "Single right click", fields |-> PointFields],
      hover |-> [description |-> "Hover over element", fields |-> PointFields],
      type |-> [description |-> "Type text",
                fields |-> << TextField("content", "Text to type", "Hello World") >>],
      hotkey |-> [description |-> "Keyboard shortcut (space-separated)",
                  fields |-> << TextField("key", "Key combination", "ctrl c") >>],
      press |-> [description |-> "Press single key",
                 fields |-> << TextField("key", "Key name", "enter") >>],
      keydown |-> [description |-> "Press and hold key",
                   fields |-> << TextField("key", "Key name", "shift") >>],
      keyup |-> [description |-> "Release key",
                 fields |-> << TextField("key", "Key name", "shift") >>],
      drag |-> [description |-> "Drag from start to end", fields |-> RegionFields],
      select |-> [description |-> "Select/highlight area", fields |-> RegionFields],
      scroll |-> [description |-> "Scroll in direction", fields |-> ScrollFields],
      finished |-> [description |-> "Task completed",
                    fields |-> << TextField("content", "Completion message",
                                            "Task completed successfully") >>] ]

RECURSIVE Escaped(_)
\* s with a backslash put before every single quote
Escaped(s) ==
    IF Len(s) = 0 THEN s
    ELSE (IF Char(s, 1) = "'" THEN "\\'" ELSE Char(s, 1)) \o Escaped(SubSeq(s, 2, Len(s)))

\* Sub as it would be if interpolation escaped embedded quotes
Sub_escaping(p, key) == Escaped(Format(p[key]))

\* params[key] inside an f-string: the rendered value (the caller has
\* checked that the key is present, see TemplateReads)
Sub(p, key) == Format(p[key])

\* params.get(key, default) inside an f-string
Get(p, key, default) == IF key \in DOMAIN p THEN Format(p[key]) ELSE default

\* the keys a kind's template reads as params[key]; a missing one raises KeyError
TemplateReads(kind) ==
    CASE kind \in {"click", "left_double", "right_single", "hover"} -> {"x", "y"}
      [] kind \in {"type", "finished"} -> {"content"}
      [] kind \in {"hotkey", "press", "keydown", "keyup"} -> {"key"}
      [] kind \in {"drag", "select"} -> {"x1", "y1", "x2", "y2"}
      [] kind = "scroll" -> {"x", "y", "direction"}

\* the string each template lambda renders
Render(kind, p) ==
    CASE kind = "click" ->
           "click(point='<point>" \o Sub(p, "x") \o " " \o Sub(p, "y") \o "</point>')"
      [] kind = "left_double" ->
           "left_double(point='<point>" \o Sub(p, "x") \o " " \o Sub(p, "y") \o "</point>')"
      [] kind = "right_single" ->
           "right_single(point='<point>" \o Sub(p, "x") \o " " \o Sub(p, "y") \o "</point>')"
      [] kind = "hover" ->
           "hover(point='<point>" \o Sub(p, "x") \o " " \o Sub(p, "y") \o "</point>')"
      [] kind = "type" -> "type(content='" \o Sub(p, "content") \o "')"
      [] kind = "hotkey" -> "hotkey(key='" \o Sub(p, "key") \o "')"
      [] kind = "press" -> "press(key='" \o Sub(p, "key") \o "')"
      [] kind = "keydown" -> "keydown(key='" \o Sub(p, "key") \o "')"
      [] kind = "keyup" -> "keyup(key='" \o Sub(p, "key") \o "')"
      [] kind = "drag" ->
           "drag(start_point='<point>" \o Sub(p, "x1") \o " " \o Sub(p, "y1")
           \o "</point>', end_point='<point>" \o Sub(p, "x2") \o " " \o Sub(p, "y2")
           \o "</point>')"
      [] kind = "select" ->
           "select(start_point='<point>" \o Sub(p, "x1") \o " " \o Sub(p, "y1")
           \o "</point>', end_point='<point>" \o Sub(p, "x2") \o " " \o Sub(p, "y2")
           \o "</point>')"
      [] kind = "scroll" ->
           "scroll(point='<point>" \o Sub(p, "x") \o " " \o Sub(p, "y")
           \o "</point>', direction='" \o Sub(p, "direction")
           \o "', pixels=" \o Get(p, "pixels", "100") \o ")"
      [] kind = "finished" -> "finished(content='" \o Sub(p, "content") \o "')"

\* config["template"](params)
Template(kind, p) ==
    IF TemplateReads(kind) \subseteq DOMAIN p
    THEN Return(Some(Render(kind, p)))
    ELSE Raise("KeyError")

(***************************************************************************)
(* build_action (action_config.py:144-156).                                *)
(***************************************************************************)
\* SomeFieldMissing as it would be if the loop tested presence only
SomeFieldMissing_presence_only(fields, p) ==
    \E i \in 1..Len(fields) : fields[i].name \notin DOMAIN p

\* the validation loop: some declared field is absent from params or falsy
SomeFieldMissing(fields, p) ==
    \E i \in 1..Len(fields) :
        fields[i].name \notin DOMAIN p \/ ~Truthy(p[fields[i].name])

\* params_after_build as it would be if the pixels default were stored in params
params_after_build_default_stored(kind, p) ==
    IF kind = "scroll" /\ "pixels" \notin DOMAIN p THEN p @@ ("pixels" :> PyS("100")) ELSE p

\* the caller's mapping after build_action(kind, p): the function and the
\* templates only read it (in, subscript, get); nothing assigns into it
params_after_build(kind, p) == p

\* build_action as it would be without the membership test of line 146
build_action_no_membership_test(kind, p) ==
    IF kind \notin DOMAIN ACTION_CONFIG THEN Raise("KeyError")
    ELSE IF SomeFieldMissing(ACTION_CONFIG[kind].fields, p) THEN Return(None)
    ELSE Template(kind, p)

\* build_action as it would be without the validation loop of lines 152-154
build_action_unvalidated(kind, p) ==
    IF kind \notin DOMAIN ACTION_CONFIG THEN Return(Some(kind \o "(...)"))
    ELSE Template(kind, p)

build_action(kind, p) ==
    IF kind \notin DOMAIN ACTION_CONFIG THEN Return(Some(kind \o "(...)"))
    ELSE IF SomeFieldMissing(ACTION_CONFIG[kind].fields, p) THEN Return(None)
    ELSE Template(kind, p)

(***************************************************************************)
(* DatasetDB (db_client.py:25-203).  The collections datasets and samples  *)
(* are sets of documents, each with its own _id; a method runs one         *)
(* collection operation (find_one, insert_one, update_one, delete_one,     *)
(* delete_many) at a time, and in the concurrent mode the operations of    *)
(* other sessions may run in between.                                      *)
(***************************************************************************)
\* the empty mapping {}
NoParams == [k \in {} |-> PyS("")]

\* the sessions of the Streamlit process, which share one DatasetDB
Sessions == {"s1", "s2"}

DatasetNames == {"a", "b"}

\* what a sample is made of besides its dataset
NoContent == [task |-> "", thought |-> "", action |-> ""]

SampleContents ==
    { [task |-> "open chrome", thought |-> "",
       action |-> "click(point='<point>1710 100</point>')"],
      [task |-> "say hello", thought |-> "the box has focus",
       action |-> "type(content='Hello World')"] }

\* the keyword arguments add_sample declares (db_client.py:79)
AddSampleKeywords == {"dataset_name", "image_bytes", "task", "thought", "action"}

\* the keyword arguments a script passes, and those the form passes (app.py:385-393)
DirectKeywords == {"dataset_name", "image_bytes", "task", "thought", "action"}

FormKeywords ==
    {"dataset_name", "image_bytes", "task", "thought", "action", "action_type",
     "action_params"}

IdleSession ==
    [ pc |-> "idle", op |-> "", name |-> "", content |-> NoContent, keywords |-> {},
      sid |-> 0, sname |-> "", dataset_id |-> 0, reserve |-> 0, editing |-> 0,
      was_editing |-> 0, uploaded |-> FALSE, valid |-> FALSE, action_type |-> "",
      action_params |-> NoParams,
      alone |-> FALSE, ret_id |-> 0, ret_ok |-> FALSE, exc |-> "",
      before_datasets |-> {}, before_samples |-> {} ]

\* empty collections, no session inside a call
NoDatabase ==
    /\ datasets = {}
    /\ samples = {}
    /\ next_id = 1
    /\ sessions = [s \in Sessions |-> IdleSession]

\* a WorkflowDatasetCreator just constructed (create_training_dataset.py:12-22)
NoWorkflow ==
    /\ dataset = <<>>
    /\ images = {}
    /\ steps = <<>>

\* no form is being filled in
NoForm ==
    /\ entered = NoParams
    /\ field_values = NoParams

\* datasets.find({'name': name}) and samples.find({'_id': id})
DatasetsNamed(name) == {d \in datasets : d.name = name}

SamplesWithIdIn(coll, id) == {x \in coll : x.id = id}

SamplesWithId(id) == SamplesWithIdIn(samples, id)

\* get_dataset_stats(name): None, or the count of the document find_one gives
get_dataset_stats(name) ==
    IF DatasetsNamed(name) = {} THEN {None}
    ELSE {Some(d.sample_count) : d \in DatasetsNamed(name)}

\* get_dataset_samples(name)
get_dataset_samples(name) == {x \in samples : x.dataset_name = name}

\* an update_one that matches nothing
IncOne_no_match(coll, name, k) == {coll}

\* update_one({'name': name}, {'$inc': {'sample_count': k}}) on a given
\* collection: one matching document is changed, or none if none matches
IncOne(coll, name, k) ==
    IF {d \in coll : d.name = name} = {} THEN {coll}
    ELSE { (coll \ {d}) \cup {[d EXCEPT !.sample_count = @ + k]} :
             d \in {e \in coll : e.name = name} }

\* the documents the calls in progress may still insert
Reserved == sessions["s1"].reserve + sessions["s2"].reserve

\* a session may enter a method: it is idle and, outside the concurrent
\* mode, so is every other session; k more documents fit the run
CanStart(s, k) ==
    /\ pc \in {"db_seq", "db_conc", "form", "adds"}
    /\ sessions[s].pc = "idle"
    /\ pc = "db_conc" \/ \A t \in Sessions : sessions[t].pc = "idle"
    /\ next_id + Reserved + k <= (IF pc = "db_conc" THEN MaxConcDocs ELSE MaxDocs) + 1

\* the session record of a call just entered; it remembers the collections as
\* the call found them (where sessions interleave, for delete_dataset only)
Entered(s, op, first_pc, name, content, keywords, sid, reserve) ==
    [ IdleSession EXCEPT
        !.pc = first_pc, !.op = op, !.name = name, !.content = content,
        !.keywords = keywords, !.sid = sid, !.reserve = reserve,
        !.editing = sessions[s].editing, !.was_editing = sessions[s].editing,
        !.alone = \A t \in Sessions \ {s} : sessions[t].pc \in {"idle", "returned"},
        !.before_datasets =
            IF pc = "db_conc" /\ op # "delete_dataset" THEN {} ELSE datasets,
        !.before_samples =
            IF pc = "db_conc" /\ op # "delete_dataset" THEN {} ELSE samples ]

\* the sessions once s is in its call: the call of another session, in
\* progress or just returned, is no longer the only one since it began
Enter(s, rec) ==
    [ t \in Sessions |->
        IF t = s THEN rec
        ELSE IF sessions[t].pc = "idle" THEN sessions[t]
        ELSE [sessions[t] EXCEPT !.alone = FALSE] ]

\* the session record of a call that has just returned or raised
Left(rec, ret_id, ret_ok, exc) ==
    [ rec EXCEPT !.pc = "returned", !.reserve = 0,
                 !.ret_id = ret_id, !.ret_ok = ret_ok, !.exc = exc ]

dbFrame ==
    <<pc, action_type, params, build_result, coord_input, parse_result, callVars, formVars,
      workflowVars>>

\* db.create_dataset(name, description)
StartCreate(s) ==
    /\ CanStart(s, 1)
    /\ \E name \in DatasetNames :
          sessions' = Enter(s,
              Entered(s, "create", "cd_find", name, NoContent, {}, 0, 1))
    /\ UNCHANGED <<dbFrame, datasets, samples, next_id>>

\* after create_dataset has its id: return it, or go on in add_sample (line 96)
AfterCreate(rec, id) ==
    IF rec.op = "create" THEN Left(rec, id, FALSE, "")
    ELSE [rec EXCEPT !.pc = "as_insert", !.dataset_id = id]

\* line 65-67: existing = find_one({'name': name}); return its id if there is one
CdFind(s) ==
    LET me == sessions[s]
    IN  /\ me.pc = "cd_find"
        /\ IF DatasetsNamed(me.name) = {}
           THEN sessions' = [sessions EXCEPT ![s].pc = "cd_insert"]
           ELSE \E d \in DatasetsNamed(me.name) :
                   sessions' = [sessions EXCEPT ![s] = AfterCreate(me, d.id)]
        /\ UNCHANGED <<dbFrame, datasets, samples, next_id>>

\* line 69-77: insert_one(dataset) with sample_count 0
CdInsert(s) ==
    LET me == sessions[s]
    IN  /\ me.pc = "cd_insert"
        /\ datasets' = datasets \cup
              {[ id |-> next_id, name |-> me.name,
                 description |-> IF me.op = "create" THEN "made by admin" ELSE "",
                 sample_count |-> 0 ]}
        /\ next_id' = next_id + 1
        /\ sessions' = [sessions EXCEPT ![s] =
              AfterCreate([me EXCEPT !.reserve = @ - 1], next_id)]
        /\ UNCHANGED <<dbFrame, samples>>

\* db.add_sample(dataset_name, image_bytes, task, thought, action) from a script
StartAdd(s) ==
    /\ CanStart(s, 2)
    /\ \E name \in DatasetNames, content \in SampleContents :
          sessions' = Enter(s,
              Entered(s, "add", "as_bind", name, content, DirectKeywords, 0, 2))
    /\ UNCHANGED <<dbFrame, datasets, samples, next_id>>

\* line 79: binding the call's keyword arguments; an undeclared one is a TypeError
AsBind(s) ==
    LET me == sessions[s]
    IN  /\ me.pc = "as_bind"
        /\ sessions' = [sessions EXCEPT ![s] =
              IF me.keywords \subseteq AddSampleKeywords
              THEN [me EXCEPT !.pc = "as_find"]
              ELSE Left(me, 0, FALSE, "TypeError")]
        /\ UNCHANGED <<dbFrame, datasets, samples, next_id>>

\* line 94-98: get the dataset, or call create_dataset(dataset_name)
AsFind(s) ==
    LET me == sessions[s]
    IN  /\ me.pc = "as_find"
        /\ IF DatasetsNamed(me.name) = {}
           THEN sessions' = [sessions EXCEPT ![s].pc = "cd_find"]
           ELSE \E d \in DatasetsNamed(me.name) :
                   sessions' = [sessions EXCEPT ![s] =
                       [me EXCEPT !.pc = "as_insert", !.dataset_id = d.id,
                                  !.reserve = @ - 1]]
        /\ UNCHANGED <<dbFrame, datasets, samples, next_id>>

\* the turns as they would be if the Thought line were written for every sample
SampleConversations_thought_always(task, thought, action) ==
    << [from |-> "human",
        value |-> "<image>\nYou are a GUI agent. The task is: " \o task
                  \o "\n\nWhat is the next action?"],
       [from |-> "gpt", value |-> "Thought: " \o thought \o "\nAction: " \o action] >>

\* lines 112-121: the two turns of a sample
SampleConversations(task, thought, action) ==
    << [from |-> "human",
        value |-> "<image>\nYou are a GUI agent. The task is: " \o task
                  \o "\n\nWhat is the next action?"],
       [from |-> "gpt",
        value |-> IF thought # ""
                  THEN "Thought: " \o thought \o "\nAction: " \o action
                  ELSE "Action: " \o action] >>

\* the document add_sample builds (lines 104-122)
SampleDocument(id, dataset_id, name, content) ==
    [ id |-> id, dataset_id |-> dataset_id, dataset_name |-> name,
      task |-> content.task, thought |-> content.thought, action |-> content.action,
      conversations |->
          SampleConversations(content.task, content.thought, content.action) ]

\* line 125: samples.insert_one(sample)
AsInsert(s) ==
    LET me == sessions[s]
    IN  /\ me.pc = "as_insert"
        /\ samples' = samples \cup
              {SampleDocument(next_id, me.dataset_id, me.name, me.content)}
        /\ next_id' = next_id + 1
        /\ sessions' = [sessions EXCEPT ![s] =
              [me EXCEPT !.pc = "as_inc", !.ret_id = next_id, !.reserve = 0]]
        /\ UNCHANGED <<dbFrame, datasets>>

\* line 128-133: the count of the dataset goes up by one; the id is returned.
\* After the form's call (app.py:395-404) the edit state is cleared.
AsInc(s) ==
    LET me == sessions[s]
    IN  /\ me.pc = "as_inc"
        /\ datasets' \in IncOne(datasets, me.name, 1)
        /\ sessions' = [sessions EXCEPT ![s] =
              Left([me EXCEPT !.editing = IF me.op = "submit" THEN 0 ELSE @],
                   me.ret_id, TRUE, "")]
        /\ UNCHANGED <<dbFrame, samples, next_id>>

\* db.delete_sample(sample_id)
StartDeleteSample(s) ==
    /\ CanStart(s, 0)
    /\ \E sid \in 1..MaxDocs :
          sessions' = Enter(s,
              Entered(s, "delete_sample", "ds_find", "", NoContent, {}, sid, 0))
    /\ UNCHANGED <<dbFrame, datasets, samples, next_id>>

\* after delete_sample: return, or go on in the form's handler (app.py:385)
AfterDeleteSample(rec, ok) ==
    IF rec.op = "delete_sample" THEN Left(rec, 0, ok, "")
    ELSE [rec EXCEPT !.pc = "as_bind"]

\* line 181-182: sample = find_one({'_id': id})
DsFind(s) ==
    LET me == sessions[s]
    IN  /\ me.pc = "ds_find"
        /\ IF SamplesWithId(me.sid) = {}
           THEN sessions' = [sessions EXCEPT ![s] = AfterDeleteSample(me, FALSE)]
           ELSE \E x \in SamplesWithId(me.sid) :
                   sessions' = [sessions EXCEPT ![s] =
                       [me EXCEPT !.pc = "ds_delete", !.sname = x.dataset_name]]
        /\ UNCHANGED <<dbFrame, datasets, samples, next_id>>

\* line 183: samples.delete_one({'_id': id})
DsDelete(s) ==
    LET me == sessions[s]
    IN  /\ me.pc = "ds_delete"
        /\ samples' = samples \ SamplesWithId(me.sid)
        /\ sessions' = [sessions EXCEPT ![s].pc = "ds_dec"]
        /\ UNCHANGED <<dbFrame, datasets, next_id>>

\* line 184-188: the count of the sample's dataset goes down by one
DsDec(s) ==
    LET me == sessions[s]
    IN  /\ me.pc = "ds_dec"
        /\ datasets' \in IncOne(datasets, me.sname, -1)
        /\ sessions' = [sessions EXCEPT ![s] = AfterDeleteSample(me, TRUE)]
        /\ UNCHANGED <<dbFrame, samples, next_id>>

\* db.delete_dataset(dataset_name)
StartDeleteDataset(s) ==
    /\ CanStart(s, 0)
    /\ \E name \in DatasetNames :
          sessions' = Enter(s,
              Entered(s, "delete_dataset", "dd_samples", name, NoContent, {}, 0, 0))
    /\ UNCHANGED <<dbFrame, datasets, samples, next_id>>

\* line 194: samples.delete_many({'dataset_name': name})
DdSamples(s) ==
    LET me == sessions[s]
    IN  /\ me.pc = "dd_samples"
        /\ samples' = samples \ get_dataset_samples(me.name)
        /\ sessions' = [sessions EXCEPT ![s].pc = "dd_dataset"]
        /\ UNCHANGED <<dbFrame, datasets, next_id>>

\* line 197-198: datasets.delete_one({'name': name}); deleted_count > 0
DdDataset(s) ==
    LET me == sessions[s]
    IN  /\ me.pc = "dd_dataset"
        /\ IF DatasetsNamed(me.name) = {}
           THEN /\ datasets' = datasets
                /\ sessions' = [sessions EXCEPT ![s] = Left(me, 0, FALSE, "")]
           ELSE \E d \in DatasetsNamed(me.name) :
                   /\ datasets' = datasets \ {d}
                   /\ sessions' = [sessions EXCEPT ![s] = Left(me, 0, TRUE, "")]
        /\ UNCHANGED <<dbFrame, samples, next_id>>

\* the caller goes on; of the call only session_state.edit_sample remains
Resume(s) ==
    /\ sessions[s].pc = "returned"
    /\ sessions' = [sessions EXCEPT ![s] =
          [IdleSession EXCEPT !.editing = sessions[s].editing]]
    /\ UNCHANGED <<dbFrame, datasets, samples, next_id>>

\* the methods of DatasetDB, one collection operation at a time
DbStep(s) ==
    \/ StartCreate(s)
    \/ CdFind(s)
    \/ CdInsert(s)
    \/ StartAdd(s)
    \/ AsBind(s)
    \/ AsFind(s)
    \/ AsInsert(s)
    \/ AsInc(s)
    \/ StartDeleteSample(s)
    \/ DsFind(s)
    \/ DsDelete(s)
    \/ DsDec(s)
    \/ StartDeleteDataset(s)
    \/ DdSamples(s)
    \/ DdDataset(s)
    \/ Resume(s)

InitDatabase(mode) ==
    /\ pc = mode
    /\ action_type = ""
    /\ params = [k \in {} |-> PyS("")]
    /\ build_result = NotCalled
    /\ coord_input = ""
    /\ parse_result = ParseNotCalled
    /\ registry = ACTION_CONFIG
    /\ callers = [c \in 1..NumCallers |->
                    [pc |-> "idle", op |-> "", kind |-> "",
                     params |-> [k \in {} |-> PyS("")], text |-> "", i |-> 0]]
    /\ history = {}
    /\ NoDatabase
    /\ NoForm
    /\ NoWorkflow

\* calls made one after the other
InitDB == InitDatabase("db_seq")

NextDB == \E s \in Sessions : DbStep(s)

SpecDB == InitDB /\ [][NextDB]_vars

\* calls of concurrent sessions, interleaved
InitDBConc == InitDatabase("db_conc")

SpecDBConc == InitDBConc /\ [][NextDB]_vars

(***************************************************************************)
(* The form of app.py: the fields of the chosen action are compiled on     *)
(* every rerun (lines 246-348); the Edit button stores the sample in       *)
(* session_state (508-520); the submit button validates, deletes the       *)
(* edited sample and calls db.add_sample (356-407).                        *)
(***************************************************************************)
\* the split as it would be if every non-empty x went through parse_coordinates
SplitCoordinates_every_x(fv) ==
    IF "x" \in DOMAIN fv /\ Truthy(fv["x"]) /\ ~parse_coordinates(fv["x"].s).raised
    THEN LET parsed == parse_coordinates(fv["x"].s).value
             with_x == [fv EXCEPT !["x"] = PyS(parsed.first)]
         IN  IF parsed.second # None /\ parsed.second[1] # "" /\ "y" \in DOMAIN fv
             THEN [with_x EXCEPT !["y"] = PyS(parsed.second[1])]
             ELSE with_x
    ELSE fv

\* lines 338-342: a comma in the field x splits it into x and y
SplitCoordinates(fv) ==
    IF /\ "x" \in DOMAIN fv
       /\ Truthy(fv["x"])
       /\ Contains(fv["x"].s, ",")
    THEN LET parsed == parse_coordinates(fv["x"].s).value
             with_x == [fv EXCEPT !["x"] = PyS(parsed.first)]
         IN  IF /\ parsed.second # None
                /\ parsed.second[1] # ""
                /\ "y" \in DOMAIN fv
             THEN [with_x EXCEPT !["y"] = PyS(parsed.second[1])]
             ELSE with_x
    ELSE fv

\* the form as it would be if action_params were set whatever build_action returned
CompileForm_params_always_set(kind, custom, widgets) ==
    IF kind = "custom"
    THEN [action |-> Some(custom), action_params |-> [raw |-> PyS(custom)]]
    ELSE [ action |-> build_action(kind, SplitCoordinates(widgets)).value,
           action_params |-> SplitCoordinates(widgets) ]

\* lines 246-348: action and action_params of the form as filled in
CompileForm(kind, custom, widgets) ==
    IF kind = "custom"
    THEN [action |-> Some(custom), action_params |-> [raw |-> PyS(custom)]]
    ELSE LET fv == SplitCoordinates(widgets)
             action == build_action(kind, fv).value
         IN  [ action |-> action,
               action_params |->
                   IF action # None /\ action[1] # "" THEN fv ELSE NoParams ]

\* what a user enters: an action type with its fields, or a custom action
FormActions ==
    { [action_type |-> "click", custom |-> "",
       field_values |-> [x |-> PyS("1710"), y |-> PyS("100")]],
      [action_type |-> "click", custom |-> "",
       field_values |-> [x |-> PyS("38,38"), y |-> PyS("")]],
      [action_type |-> "click", custom |-> "",
       field_values |-> [x |-> PyS("1710"), y |-> PyS("")]],
      [action_type |-> "type", custom |-> "",
       field_values |-> [content |-> PyS("Hello World")]],
      [action_type |-> "custom", custom |-> "wait()", field_values |-> NoParams],
      [action_type |-> "custom", custom |-> "", field_values |-> NoParams] }

FormTasks == {"", "open chrome"}

FormThoughts == {"", "it is in the dock"}

\* lines 508-520: the Edit button of a listed sample
EditClick(s) ==
    /\ pc = "form"
    /\ CanStart(s, 0)
    /\ \E x \in samples : sessions' = [sessions EXCEPT ![s].editing = x.id]
    /\ UNCHANGED <<dbFrame, datasets, samples, next_id>>

\* lines 356-385: the submit button; the inputs are validated, and the
\* handler goes on to delete_sample when editing, to add_sample otherwise
Submit(s) ==
    /\ pc = "form"
    /\ CanStart(s, 2)
    /\ \E name \in DatasetNames, uploaded_file \in BOOLEAN, task \in FormTasks,
          thought \in FormThoughts, filled \in FormActions :
          LET form == CompileForm(filled.action_type, filled.custom,
                                  filled.field_values)
              editing_sample_id == sessions[s].editing
              valid == /\ uploaded_file \/ editing_sample_id # 0
                       /\ task # ""
                       /\ form.action # None
                       /\ form.action[1] # ""
              content == [ task |-> task, thought |-> thought,
                           action |-> IF form.action = None THEN ""
                                      ELSE form.action[1] ]
              rec == [ Entered(s, "submit",
                               IF editing_sample_id # 0 THEN "ds_find" ELSE "as_bind",
                               name, content, FormKeywords, editing_sample_id, 2)
                       EXCEPT !.uploaded = uploaded_file,
                              !.valid = valid,
                              !.action_type = filled.action_type,
                              !.action_params = form.action_params ]
          IN  sessions' = Enter(s, IF valid THEN rec ELSE Left(rec, 0, FALSE, ""))
    /\ UNCHANGED <<dbFrame, datasets, samples, next_id>>

\* the form in use, next to scripts that call DatasetDB
InitForm == InitDatabase("form")

NextForm == \E s \in Sessions : DbStep(s) \/ EditClick(s) \/ Submit(s)

SpecForm == InitForm /\ [][NextForm]_vars

(***************************************************************************)
(* Concurrent callers.  ACTION_CONFIG is one module-level dict shared by   *)
(* every session of the process; a caller runs build_action one statement  *)
(* at a time (the membership test, each turn of the validation loop, the   *)
(* template call), and other callers' statements may run in between.       *)
(***************************************************************************)
Callers == 1..NumCallers

IdleCaller ==
    [pc |-> "idle", op |-> "", kind |-> "", params |-> NoParams, text |-> "", i |-> 0]

\* no caller is running: the table is as the module defined it
NoCallers ==
    /\ registry = ACTION_CONFIG
    /\ callers = [c \in Callers |-> IdleCaller]
    /\ history = {}

\* the calls the callers make
SharedCalls ==
    { [kind |-> "click", params |-> [x |-> PyS("1710"), y |-> PyS("100")]],
      [kind |-> "click", params |-> [x |-> PyS("1710")]],
      [kind |-> "scroll",
       params |-> [x |-> PyS("800"), y |-> PyS("600"), direction |-> PyS("down")]],
      [kind |-> "unknown_kind", params |-> NoParams] }

SharedTexts == {"38, 38"}

SharedLookups == {"custom"}

\* registry_after_read as it would be if the loop consumed the field list it walks
registry_after_read_consuming(reg, kind) ==
    IF kind \in DOMAIN reg /\ Len(reg[kind].fields) > 0
    THEN [reg EXCEPT ![kind].fields = Tail(@)]
    ELSE reg

\* the table after a statement of build_action has read it: the membership
\* test, the subscript and the for loop only read ACTION_CONFIG
registry_after_read(reg, kind) == reg

\* a finished call, as the history keeps it
Finished(op, kind, p, text, built, parsed, found) ==
    [op |-> op, kind |-> kind, params |-> p, text |-> text,
     built |-> built, parsed |-> parsed, found |-> found]

\* caller c's call has returned: it is recorded and c is idle again
Finish(c, built, parsed, found) ==
    /\ history' = history \cup
          {Finished(callers[c].op, callers[c].kind, callers[c].params, callers[c].text,
                    built, parsed, found)}
    /\ callers' = [callers EXCEPT ![c] = IdleCaller]

\* caller c calls build_action(call.kind, call.params)
StartBuild(c) ==
    /\ pc = "shared"
    /\ callers[c].pc = "idle"
    /\ \E call \in SharedCalls :
          callers' = [callers EXCEPT ![c] =
              [pc |-> "check_kind", op |-> "build", kind |-> call.kind,
               params |-> call.params, text |-> "", i |-> 0]]
    /\ UNCHANGED <<dbVars, formVars, workflowVars, pc, action_type, params, build_result, coord_input, parse_result,
                   registry, history>>

\* lines 146-149: the membership test and config = ACTION_CONFIG[action_type]
CheckKind(c) ==
    /\ pc = "shared"
    /\ callers[c].pc = "check_kind"
    /\ IF callers[c].kind \notin DOMAIN registry
       THEN Finish(c, Return(Some(callers[c].kind \o "(...)")), NoPair, FALSE)
       ELSE /\ callers' = [callers EXCEPT ![c].pc = "validate", ![c].i = 1]
            /\ UNCHANGED history
    /\ registry' = registry_after_read(registry, callers[c].kind)
    /\ UNCHANGED <<dbVars, formVars, workflowVars, pc, action_type, params, build_result, coord_input, parse_result>>

\* lines 152-154: one turn of the loop over config["fields"]
Validate(c) ==
    LET me == callers[c]
        fields == registry[me.kind].fields
    IN  /\ pc = "shared"
        /\ me.pc = "validate"
        /\ IF me.i > Len(fields)
           THEN /\ callers' = [callers EXCEPT ![c].pc = "template"]
                /\ UNCHANGED history
           ELSE IF SomeFieldMissing(<<fields[me.i]>>, me.params)
           THEN Finish(c, Return(None), NoPair, FALSE)
           ELSE /\ callers' = [callers EXCEPT ![c].i = me.i + 1]
                /\ UNCHANGED history
        /\ registry' = registry_after_read(registry, me.kind)
        /\ UNCHANGED <<dbVars, formVars, workflowVars, pc, action_type, params, build_result, coord_input, parse_result>>

\* line 156: return config["template"](params)
RunTemplate(c) ==
    /\ pc = "shared"
    /\ callers[c].pc = "template"
    /\ Finish(c, Template(callers[c].kind, callers[c].params), NoPair, FALSE)
    /\ UNCHANGED <<dbVars, formVars, workflowVars, pc, action_type, params, build_result, coord_input, parse_result,
                   registry>>

\* caller c calls parse_coordinates(text): the call works on its argument only
CallParse(c) ==
    /\ pc = "shared"
    /\ callers[c].pc = "idle"
    /\ \E text \in SharedTexts :
          history' = history \cup
              {Finished("parse", "", NoParams, text, NotCalled,
                        parse_coordinates(text).value, FALSE)}
    /\ UNCHANGED <<dbVars, formVars, workflowVars, pc, action_type, params, build_result, coord_input, parse_result,
                   registry, callers>>

\* caller c looks a kind up: kind in ACTION_CONFIG (app.py:241, 251)
Lookup(c) ==
    /\ pc = "shared"
    /\ callers[c].pc = "idle"
    /\ \E kind \in SharedLookups :
          /\ history' = history \cup
                {Finished("lookup", kind, NoParams, "", NotCalled, NoPair,
                          kind \in DOMAIN registry)}
          /\ registry' = registry_after_read(registry, kind)
    /\ UNCHANGED <<dbVars, formVars, workflowVars, pc, action_type, params, build_result, coord_input, parse_result,
                   callers>>

InitCalls ==
    /\ pc = "shared"
    /\ action_type = ""
    /\ params = NoParams
    /\ build_result = NotCalled
    /\ coord_input = ""
    /\ parse_result = ParseNotCalled
    /\ NoCallers
    /\ NoDatabase
    /\ NoForm
    /\ NoWorkflow

NextCalls ==
    \E c \in Callers :
        \/ StartBuild(c)
        \/ CheckKind(c)
        \/ Validate(c)
        \/ RunTemplate(c)
        \/ CallParse(c)
        \/ Lookup(c)

SpecCalls == InitCalls /\ [][NextCalls]_vars

(***************************************************************************)
(* The calls checked.  A call's inputs are drawn when the state is         *)
(* created; the one action of each specification runs the call.            *)
(***************************************************************************)
RECURSIVE Strings(_, _)
\* every string of at most n characters of chars
Strings(chars, n) ==
    IF n = 0 THEN {""}
    ELSE LET shorter == Strings(chars, n - 1)
         IN  shorter \cup {s \o c : s \in shorter, c \in chars}

\* characters of the generated parameter values: a digit and the single quote
ValueChars == {"7", "'"}

ParamValues ==
    {PyS(s) : s \in Strings(ValueChars, MaxValLen)} \cup {PyI(0), PyI(100)}

\* kinds tried that the registry does not hold
UnknownKinds == {"custom", "unknown_kind", ""}

Kinds == DOMAIN ACTION_CONFIG \cup UnknownKinds

DeclaredNames(kind) ==
    {ACTION_CONFIG[kind].fields[i].name : i \in 1..Len(ACTION_CONFIG[kind].fields)}

\* the keys a generated mapping may hold, besides the undeclared key "raw"
CandidateNames(kind) ==
    IF kind \in DOMAIN ACTION_CONFIG THEN DeclaredNames(kind) ELSE {"x", "y"}

ParamMaps(kind) ==
    LET declared == UNION {[K -> ParamValues] : K \in SUBSET CandidateNames(kind)}
    IN  declared \cup {m @@ ("raw" :> PyS("7")) : m \in declared}

\* the calls the documentation gives as examples
DocumentedCalls ==
    << [kind |-> "click", params |-> [x |-> PyS("1710"), y |-> PyS("100")]],
       [kind |-> "scroll",
        params |-> [x |-> PyS("800"), y |-> PyS("600"), direction |-> PyS("down")]],
       [kind |-> "drag",
        params |-> [x1 |-> PyS("100"), y1 |-> PyS("100"),
                    x2 |-> PyS("500"), y2 |-> PyS("500")]],
       [kind |-> "type", params |-> [content |-> PyS("Hello World")]] >>

InitBuild ==
    /\ pc = "ready"
    /\ \/ action_type \in Kinds /\ params \in ParamMaps(action_type)
       \/ \E e \in 1..Len(DocumentedCalls) :
            action_type = DocumentedCalls[e].kind /\ params = DocumentedCalls[e].params
    /\ build_result = NotCalled
    /\ coord_input = ""
    /\ parse_result = ParseNotCalled
    /\ NoCallers
    /\ NoDatabase
    /\ NoForm
    /\ NoWorkflow

\* one call build_action(action_type, params)
BuildAction ==
    /\ pc = "ready"
    /\ pc' = "done"
    /\ build_result' = build_action(action_type, params)
    /\ params' = params_after_build(action_type, params)
    /\ UNCHANGED <<action_type, coord_input, parse_result, callVars, dbVars, formVars,
                   workflowVars>>

NextBuild == BuildAction

SpecBuild == InitBuild /\ [][NextBuild]_vars

\* characters of the generated coordinate texts
CoordChars == {"3", "8", ",", " ", "\t"}

\* the texts the documentation gives as examples
DocumentedInputs == {"38,38", "38 38", "38", "38, 38", "1,2,3", "38,"}

CoordInputs == Strings(CoordChars, MaxLen) \cup DocumentedInputs

InitParse ==
    /\ pc = "ready"
    /\ coord_input \in CoordInputs
    /\ parse_result = ParseNotCalled
    /\ action_type = ""
    /\ params = NoParams
    /\ build_result = NotCalled
    /\ NoCallers
    /\ NoDatabase
    /\ NoForm
    /\ NoWorkflow

\* one call parse_coordinates(coord_input)
ParseCoordinates ==
    /\ pc = "ready"
    /\ pc' = "done"
    /\ parse_result' = parse_coordinates(coord_input)
    /\ UNCHANGED <<action_type, params, build_result, coord_input, callVars, dbVars,
                   formVars, workflowVars>>

NextParse == ParseCoordinates

SpecParse == InitParse /\ [][NextParse]_vars

(***************************************************************************)
(* The fields of the form on one rerun of app.py: the widgets of the       *)
(* chosen action fill field_values (lines 251-336), a comma in x is split  *)
(* (338-342), and build_action compiles the result (345).                  *)
(***************************************************************************)
\* the action types whose fields are filled in
FieldKinds == {"click", "scroll", "drag", "type"}

\* what can be in the widget of a field
FieldTexts(name) ==
    IF name = "x"
    THEN {"", "38", "38,38", "38, 39", " 38 ,", ",39", ",", "38,39,40", "38 38"}
    ELSE IF name = "y" THEN {"", "100"}
    ELSE IF name = "direction" THEN {"up", "down"}
    ELSE {"", "100,200"}

AllFieldTexts == UNION {FieldTexts(n) : n \in {"x", "y", "direction", "content"}}

\* the widgets of an action type, one per declared field
Widgets(kind) ==
    { w \in [DeclaredNames(kind) -> {PyS(t) : t \in AllFieldTexts}] :
        \A n \in DeclaredNames(kind) : w[n].s \in FieldTexts(n) }

InitFields ==
    /\ pc = "widgets"
    /\ action_type \in FieldKinds
    /\ entered \in Widgets(action_type)
    /\ field_values = NoParams
    /\ params = NoParams
    /\ build_result = NotCalled
    /\ coord_input = ""
    /\ parse_result = ParseNotCalled
    /\ NoCallers
    /\ NoDatabase
    /\ NoWorkflow

\* lines 256-336: field_values[field["name"]] = the widget's value
FillFields ==
    /\ pc = "widgets"
    /\ pc' = "filled"
    /\ field_values' = entered
    /\ UNCHANGED <<action_type, params, build_result, coord_input, parse_result,
                   entered, callVars, dbVars, workflowVars>>

\* line 338: 'x' in field_values and field_values['x'] and ',' in field_values['x']
SplitsX(fv) == "x" \in DOMAIN fv /\ Truthy(fv["x"]) /\ Contains(fv["x"].s, ",")

\* lines 338-342
SplitFields ==
    /\ pc = "filled"
    /\ pc' = "split"
    /\ IF SplitsX(field_values)
       THEN /\ coord_input' = field_values["x"].s
            /\ parse_result' = parse_coordinates(field_values["x"].s)
       ELSE UNCHANGED <<coord_input, parse_result>>
    /\ field_values' = SplitCoordinates(field_values)
    /\ UNCHANGED <<action_type, params, build_result, entered, callVars, dbVars,
                   workflowVars>>

\* line 345: action = build_action(action_type, field_values)
CompileFields ==
    /\ pc = "split"
    /\ pc' = "compiled"
    /\ params' = field_values
    /\ build_result' = build_action(action_type, field_values)
    /\ UNCHANGED <<action_type, coord_input, parse_result, entered, field_values,
                   callVars, dbVars, workflowVars>>

NextFields == FillFields \/ SplitFields \/ CompileFields

SpecFields == InitFields /\ [][NextFields]_vars

(***************************************************************************)
(* WorkflowDatasetCreator (create_training_dataset.py:11-74): the list     *)
(* self.dataset and the files of images_dir.  It is checked together with  *)
(* DatasetDB.add_sample, the other way a sample is added.                  *)
(***************************************************************************)
\* position of the last "/" of a path, 0 if it has none
LastSlash(path) ==
    IF Contains(path, "/")
    THEN CHOOSE i \in 1..Len(path) :
            Char(path, i) = "/" /\ \A j \in (i + 1)..Len(path) : Char(path, j) # "/"
    ELSE 0

\* os.path.basename(path)
Basename(path) == SubSeq(path, LastSlash(path) + 1, Len(path))

\* the screenshots that exist on disk, and the paths a caller passes
SourceFiles == {"shots/a.png"}

ImagePaths == {"shots/a.png", "shots/missing.png"}

StepTasks == {"Open Chrome"}

StepThoughts == {"", "Chrome is in the dock"}

StepActions == {"click(point='<point>1710 100</point>')"}

\* one clock reading, as strftime('%Y%m%d_%H%M%S') renders it
Timestamps == {"20240101_120000"}

\* lines 58-67: the two turns of an entry
StepConversations(task_description, thought, action) ==
    << [from |-> "human",
        value |-> "<image>\nYou are a GUI agent. The task is: " \o task_description
                  \o "\n\nWhat is the next action?"],
       [from |-> "gpt",
        value |-> IF thought # ""
                  THEN "Thought: " \o thought \o "\nAction: " \o action
                  ELSE "Action: " \o action] >>

\* add_workflow_step(image_path, task_description, action, thought)
add_workflow_step ==
    /\ pc = "adds"
    /\ Len(steps) < MaxSteps
    /\ \E image_path \in ImagePaths, task_description \in StepTasks,
          action \in StepActions, thought \in StepThoughts, now \in Timestamps :
          LET image_filename == Basename(image_path)
              copies == image_filename \notin images
              fails == copies /\ image_path \notin SourceFiles
              entry == [ id |-> "workflow_" \o IntToStr(Len(dataset)) \o "_" \o now,
                         image |-> "images/" \o image_filename,
                         conversations |->
                             StepConversations(task_description, thought, action) ]
          IN  /\ steps' = Append(steps,
                     [ task_description |-> task_description, action |-> action,
                       thought |-> thought, raised |-> fails ])
              /\ IF fails
                 THEN UNCHANGED <<dataset, images>>
                 ELSE /\ images' = images \cup {image_filename}
                      /\ dataset' = Append(dataset, entry)
    /\ UNCHANGED <<pc, action_type, params, build_result, coord_input, parse_result,
                   callVars, dbVars, formVars>>

\* add_sample calls of scripts and add_workflow_step calls, one after the other
InitAdds == InitDatabase("adds")

NextAdds ==
    \/ \E s \in Sessions :
          \/ StartAdd(s)
          \/ AsBind(s)
          \/ AsFind(s)
          \/ CdFind(s)
          \/ CdInsert(s)
          \/ AsInsert(s)
          \/ AsInc(s)
          \/ Resume(s)
    \/ add_workflow_step

SpecAdds == InitAdds /\ [][NextAdds]_vars

(***************************************************************************)
(* Properties of build_action, checked under SpecBuild.                    *)
(***************************************************************************)
Registered == action_type \in DOMAIN ACTION_CONFIG

\* params lacks the name or maps it to an empty/falsy value
Lacks(name) == name \notin DOMAIN params \/ ~Truthy(params[name])

AllDeclaredGiven == \A name \in DeclaredNames(action_type) : ~Lacks(name)

\* C1: for a registered kind, build_action returns None whenever some
\* declared field is absent from params or empty/falsy, whatever the
\* other fields hold.
C1_MissingFieldIncomplete ==
    (pc = "done" /\ Registered) =>
        \A name \in DeclaredNames(action_type) :
            Lacks(name) => build_result = Return(None)

\* C1 witness: a finished call where exactly one declared field is lacking,
\* every other one is given, and the result is None.
C1_Witness ==
    /\ pc = "done"
    /\ Registered
    /\ \E name \in DeclaredNames(action_type) :
          /\ Lacks(name)
          /\ \A other \in DeclaredNames(action_type) \ {name} : ~Lacks(other)
    /\ Cardinality(DeclaredNames(action_type)) > 1
    /\ build_result = Return(None)

PointKinds == {"click", "left_double", "right_single", "hover"}

ContentKinds == {"type", "finished"}

KeyKinds == {"hotkey", "press", "keydown", "keyup"}

RegionKinds == {"drag", "select"}

\* the value of a field as it must appear in the command
Shown(name) == Format(params[name])

PointText(x, y) == "<point>" \o x \o " " \o y \o "</point>"

\* the canonical command of the documented grammar for the current call
Canonical ==
    CASE action_type \in PointKinds ->
           action_type \o "(point='" \o PointText(Shown("x"), Shown("y")) \o "')"
      [] action_type \in ContentKinds ->
           action_type \o "(content='" \o Shown("content") \o "')"
      [] action_type \in KeyKinds ->
           action_type \o "(key='" \o Shown("key") \o "')"
      [] action_type \in RegionKinds ->
           action_type \o "(start_point='" \o PointText(Shown("x1"), Shown("y1"))
           \o "', end_point='" \o PointText(Shown("x2"), Shown("y2")) \o "')"
      [] action_type = "scroll" ->
           "scroll(point='" \o PointText(Shown("x"), Shown("y"))
           \o "', direction='" \o Shown("direction")
           \o "', pixels=" \o Shown("pixels") \o ")"

\* C2: for a registered kind with every declared field present and
\* non-empty, build_action returns the canonical command of that kind with
\* each value verbatim and unescaped at its position.
C2_CanonicalCommand ==
    (pc = "done" /\ Registered /\ AllDeclaredGiven) =>
        build_result = Return(Some(Canonical))

\* C2 witness: a complete call whose value holds a single quote, compiled.
C2_Witness ==
    /\ pc = "done"
    /\ action_type = "type"
    /\ AllDeclaredGiven
    /\ params["content"] = PyS("'")
    /\ build_result = Return(Some("type(content=''')"))

\* C3: a scroll whose params hold non-empty x, y and direction but no
\* pixels entry compiles, with pixels=100 rendered unquoted.
C3_ScrollDefaultPixels ==
    ( /\ pc = "done"
      /\ action_type = "scroll"
      /\ "pixels" \notin DOMAIN params
      /\ \A name \in {"x", "y", "direction"} : ~Lacks(name) ) =>
        build_result =
            Return(Some("scroll(point='" \o PointText(Shown("x"), Shown("y"))
                        \o "', direction='" \o Shown("direction") \o "', pixels=100)"))

\* C4: for a kind the registry does not hold, build_action returns the
\* kind followed by "(...)" for every params mapping: never None, never an
\* exception.
C4_UnknownKindPlaceholder ==
    (pc = "done" /\ ~Registered) =>
        build_result = Return(Some(action_type \o "(...)"))

\* C4 witness: the call build_action("unknown_kind", {}) has returned
\* "unknown_kind(...)".
C4_Witness ==
    /\ pc = "done"
    /\ action_type = "unknown_kind"
    /\ DOMAIN params = {}
    /\ build_result = Return(Some("unknown_kind(...)"))

\* C5: build_action never raises: every call ends with a returned string
\* or None, and a template only ran when params held every key it reads.
C5_NeverRaises ==
    pc = "done" =>
        /\ ~build_result.raised
        /\ (Registered /\ build_result.value # None) =>
               TemplateReads(action_type) \subseteq DOMAIN params

\* C5 witness: a finished call of a registered kind whose params lack a
\* key the template reads, ended by an ordinary return.
C5_Witness ==
    /\ pc = "done"
    /\ Registered
    /\ ~(TemplateReads(action_type) \subseteq DOMAIN params)
    /\ ~build_result.raised

(***************************************************************************)
(* Properties of parse_coordinates, checked under SpecParse.               *)
(***************************************************************************)
HasComma == Contains(coord_input, ",")

HasSpace == Contains(coord_input, " ")

\* position of the first comma of s (s holds one)
FirstComma(s) ==
    CHOOSE i \in 1..Len(s) :
        Char(s, i) = "," /\ \A j \in 1..(i - 1) : Char(s, j) # ","

\* the text before the first comma, and the whole text after it
BeforeComma == SubSeq(coord_input, 1, FirstComma(coord_input) - 1)

AfterComma == SubSeq(coord_input, FirstComma(coord_input) + 1, Len(coord_input))

\* the text between the first comma and the next one (or the end of the text)
NextSegment ==
    IF Contains(AfterComma, ",")
    THEN SubSeq(AfterComma, 1, FirstComma(AfterComma) - 1)
    ELSE AfterComma

\* s neither starts nor ends with whitespace
Trimmed(s) ==
    Len(s) = 0 \/ (Char(s, 1) \notin Whitespace /\ Char(s, Len(s)) \notin Whitespace)

\* C6: parse_coordinates has no failure mode: every text, the empty one and
\* one made only of spaces included, yields a pair without raising.
C6_ParseNeverRaises == pc = "done" => ~parse_result.raised

\* C7: for a text with a comma, first is the trimmed text before the first
\* comma and second is the trimmed whole remainder after it, further commas
\* staying inside second.
C7_SplitOnFirstCommaOnly ==
    (pc = "done" /\ HasComma) =>
        parse_result = ParseReturn(Strip(BeforeComma), Some(Strip(AfterComma)))

\* C7 as amended: for a text with a comma, first is the trimmed text before
\* the first comma and second is the trimmed text between the first comma
\* and the next comma (or the end of the text); what follows a second
\* comma is dropped.
C7_SplitTakesSecondPart ==
    (pc = "done" /\ HasComma) =>
        parse_result = ParseReturn(Strip(BeforeComma), Some(Strip(NextSegment)))

\* C7 witness: "1,2,3" has been parsed to ("1", "2").
C7_Witness ==
    /\ pc = "done"
    /\ coord_input = "1,2,3"
    /\ parse_result = ParseReturn("1", Some("2"))

\* C8: for a text with a comma where nothing, or only whitespace, follows
\* the first comma, second is None and not an empty string.
C8_NothingAfterCommaIsNone ==
    (pc = "done" /\ HasComma /\ Strip(AfterComma) = "") =>
        /\ ~parse_result.raised
        /\ parse_result.value.second = None

\* C9: the comma takes priority over the space: for a text with a comma the
\* call returns, first is the trimmed text before the first comma whatever
\* spaces the text holds, both parts are trimmed, and "38, 38" and "38,38"
\* both give ("38", "38").
C9_CommaBeforeSpace ==
    (pc = "done" /\ HasComma) =>
        /\ ~parse_result.raised
        /\ parse_result.value.first = Strip(BeforeComma)
        /\ Trimmed(parse_result.value.first)
        /\ parse_result.value.second # None => Trimmed(parse_result.value.second[1])
        /\ coord_input \in {"38, 38", "38,38"} =>
               parse_result.value = Pair("38", Some("38"))

\* C9 witness: "38, 38", which holds a comma and a space, parsed to ("38", "38").
C9_Witness ==
    /\ pc = "done"
    /\ coord_input = "38, 38"
    /\ parse_result = ParseReturn("38", Some("38"))

\* C10: for a text with a space and no comma, first is the first
\* whitespace-separated token and second is the second token, or None when
\* there is none; later tokens are ignored.
C10_SplitOnWhitespace ==
    (pc = "done" /\ ~HasComma /\ HasSpace) =>
        /\ ~parse_result.raised
        /\ Len(SplitWhitespace(coord_input)) >= 1
        /\ parse_result.value.first = SplitWhitespace(coord_input)[1]
        /\ parse_result.value.second =
               IF Len(SplitWhitespace(coord_input)) >= 2
               THEN Some(SplitWhitespace(coord_input)[2])
               ELSE None


\* C11: for a text with neither a comma nor a space, the empty text
\* included, parse_coordinates returns the trimmed whole text and None.
C11_NoDelimiterWholeText ==
    (pc = "done" /\ ~HasComma /\ ~HasSpace) =>
        /\ parse_result = ParseReturn(Strip(coord_input), None)
        /\ Trimmed(parse_result.value.first)

\* C11 witness: a text without comma or space that starts with a tab has
\* been parsed to its trimmed text and None.
C11_Witness ==
    /\ pc = "done"
    /\ ~HasComma /\ ~HasSpace
    /\ Len(coord_input) > 1
    /\ Char(coord_input, 1) = "\t"
    /\ parse_result.value.first # ""
    /\ parse_result.value.first # coord_input
    /\ parse_result.value.second = None

(***************************************************************************)
(* Frame of build_action, checked under SpecBuild.                         *)
(***************************************************************************)
\* C12: build_action leaves its params mapping as it was, on every outcome
\* (a command, None or the placeholder): no step of a call changes a key or
\* a value, and no default such as pixels is written into it.
C12_ParamsUnchanged == [][params' = params]_vars

\* C12 witness: a scroll call whose params lack pixels has returned, and
\* params still lacks pixels.
C12_Witness ==
    /\ pc = "done"
    /\ action_type = "scroll"
    /\ {"x", "y", "direction"} \subseteq DOMAIN params
    /\ "pixels" \notin DOMAIN params


(***************************************************************************)
(* Properties of the shared registry, checked under SpecCalls.             *)
(***************************************************************************)
BuildsDone == {h \in history : h.op = "build"}

\* C13: build_action is deterministic and history-independent: two finished
\* calls with the same kind and equal params have identical results,
\* whatever build_action, parse_coordinates or lookup calls ran in between.
C13_SameCallSameResult ==
    \A a, b \in BuildsDone :
        (a.kind = b.kind /\ a.params = b.params) => a.built = b.built

\* C13 witness: after a build_action call, a parse_coordinates call and a
\* lookup have finished, a caller is again inside build_action with the
\* kind and params of the finished call.
C13_Witness ==
    /\ \E h \in history : h.op = "parse"
    /\ \E h \in history : h.op = "lookup"
    /\ \E h \in BuildsDone : \E c \in Callers :
          /\ callers[c].pc = "template"
          /\ callers[c].kind = h.kind
          /\ callers[c].params = h.params

UniqueNames(fields) ==
    \A i, j \in 1..Len(fields) : fields[i].name = fields[j].name => i = j

DefaultAmongOptions(f) ==
    "default" \in DOMAIN f =>
        /\ "options" \in DOMAIN f
        /\ \E n \in 1..Len(f.options) : f.options[n] = f.default

\* C14: the registry holds exactly the 13 documented kinds, and for each of
\* them no two fields share a name and a field's default, when it has one,
\* is one of its options.
C14_RegistryWellFormed ==
    /\ DOMAIN registry =
          {"click", "left_double", "right_single", "hover", "type", "hotkey", "press",
           "keydown", "keyup", "drag", "select", "scroll", "finished"}
    /\ \A kind \in DOMAIN registry :
          /\ UniqueNames(registry[kind].fields)
          /\ \A i \in 1..Len(registry[kind].fields) :
                DefaultAmongOptions(registry[kind].fields[i])

\* C14 witness: calls have run against a registry that holds a field with a
\* default.
C14_Witness ==
    /\ BuildsDone # {}
    /\ \E kind \in DOMAIN registry : \E i \in 1..Len(registry[kind].fields) :
          "default" \in DOMAIN registry[kind].fields[i]

\* C15: under every interleaving of concurrent callers the registry is
\* never modified, and every finished lookup, build_action and
\* parse_coordinates call has the result it would have if it ran alone.
C15_CallsDoNotInterfere ==
    /\ registry = ACTION_CONFIG
    /\ \A h \in history :
          CASE h.op = "build" -> h.built = build_action(h.kind, h.params)
            [] h.op = "parse" -> h.parsed = parse_coordinates(h.text).value
            [] h.op = "lookup" -> h.found = (h.kind \in DOMAIN ACTION_CONFIG)

\* C15 witness: two callers are inside build_action at the same time, one
\* of them past the membership test, and calls of every kind have finished.
C15_Witness ==
    /\ \E c, d \in Callers :
          /\ c # d
          /\ callers[c].pc = "validate" /\ callers[c].i = 2
          /\ callers[d].pc = "template"
    /\ BuildsDone # {}
    /\ \E h \in history : h.op = "lookup"

\* no call of DatasetDB is in progress
BetweenCalls == \A s \in Sessions : sessions[s].pc \in {"idle", "returned"}

\* C18: between the calls of a sequential run of create_dataset, add_sample,
\* delete_sample and delete_dataset, the sample_count of every dataset is the
\* number of stored samples that carry its name, and it is not negative.
C18_CountIsNumberOfSamples ==
    BetweenCalls =>
        \A d \in datasets :
            /\ d.sample_count = Cardinality(get_dataset_samples(d.name))
            /\ d.sample_count >= 0

\* a delete_sample has returned True and its dataset still has a sample
C18_Witness ==
    \E s \in Sessions :
        /\ sessions[s].pc = "returned"
        /\ sessions[s].op = "delete_sample"
        /\ sessions[s].ret_ok
        /\ \E d \in datasets :
              /\ d.name = sessions[s].sname
              /\ d.sample_count = 1
              /\ Cardinality(get_dataset_samples(d.name)) = 1

\* C19: no two dataset documents have the same name, also where create_dataset
\* and add_sample calls of concurrent sessions for one new name interleave
\* between the find_one and the insert_one.
C19_OneDatasetPerName ==
    \A d1 \in datasets, d2 \in datasets : d1.name = d2.name => d1 = d2

\* delete_dataset has returned in session s, and no other call has run since
\* it was entered
DeleteDatasetReturned(s) ==
    /\ sessions[s].pc = "returned"
    /\ sessions[s].op = "delete_dataset"
    /\ sessions[s].alone

\* C20: after delete_dataset(name) there is no dataset name and no sample of
\* dataset name, get_dataset_stats(name) is None, get_dataset_samples(name) is
\* empty, and the other datasets with their counts and the other samples are
\* as they were before the call.
C20_DeleteDatasetRemovesOnlyIt ==
    \A s \in Sessions :
        DeleteDatasetReturned(s) =>
            LET name == sessions[s].name
            IN  /\ DatasetsNamed(name) = {}
                /\ get_dataset_samples(name) = {}
                /\ get_dataset_stats(name) = {None}
                /\ {d \in datasets : d.name # name}
                     = {d \in sessions[s].before_datasets : d.name # name}
                /\ {x \in samples : x.dataset_name # name}
                     = {x \in sessions[s].before_samples : x.dataset_name # name}

\* the submit handler of session s has finished with inputs that passed the
\* validation of lines 359-364
SubmitDone(s) ==
    /\ sessions[s].pc = "returned"
    /\ sessions[s].op = "submit"
    /\ sessions[s].valid

\* C16: a submit of the form with a compiled action ends without an exception
\* of db.add_sample, and the sample it stored carries the form's action and
\* action_params.
C16_FormSampleStoredVerbatim ==
    \A s \in Sessions :
        SubmitDone(s) =>
            /\ sessions[s].exc = ""
            /\ \E x \in samples :
                  /\ x.id = sessions[s].ret_id
                  /\ x.action = sessions[s].content.action
                  /\ "action_params" \in DOMAIN x
                  /\ x.action_params = sessions[s].action_params

\* C17: after a valid submit in edit mode the edited sample is gone, exactly
\* one new sample with the task, thought and action of the form exists, and
\* there are as many samples as before the submit.
C17_EditReplacesSample ==
    \A s \in Sessions :
        (SubmitDone(s) /\ SamplesWithIdIn(sessions[s].before_samples,
                                          sessions[s].was_editing) # {}) =>
            LET new == samples \ sessions[s].before_samples
            IN  /\ SamplesWithId(sessions[s].was_editing) = {}
                /\ Cardinality(new) = 1
                /\ \A x \in new :
                      /\ x.task = sessions[s].content.task
                      /\ x.thought = sessions[s].content.thought
                      /\ x.action = sessions[s].content.action
                /\ Cardinality(samples) = Cardinality(sessions[s].before_samples)

(***************************************************************************)
(* Properties of the form's fields, checked under SpecFields.              *)
(***************************************************************************)
\* the widget of x holds a comma
CommaInX == "x" \in DOMAIN entered /\ Contains(entered["x"].s, ",")

\* C21: when the widget of x holds a comma, its text goes through
\* parse_coordinates, x becomes the first component, and y becomes the second
\* component exactly when that one is not empty and the action has a field y;
\* every other value, and every value when x holds no comma (a pair written
\* with a space included), reaches build_action as entered.  "38,38" in x
\* with an empty y compiles a click at 38 38.
C21_CommaInXIsSplit ==
    pc = "compiled" =>
        /\ DOMAIN params = DOMAIN entered
        /\ IF CommaInX
           THEN /\ coord_input = entered["x"].s
                /\ ~parse_result.raised
                /\ params["x"] = PyS(Strip(BeforeComma))
                /\ "y" \in DOMAIN entered =>
                      params["y"] = IF Strip(NextSegment) # ""
                                    THEN PyS(Strip(NextSegment))
                                    ELSE entered["y"]
                /\ \A n \in DOMAIN entered \ {"x", "y"} : params[n] = entered[n]
           ELSE params = entered
        /\ (action_type = "click" /\ entered = [x |-> PyS("38,38"), y |-> PyS("")]) =>
              build_result = Return(Some("click(point='<point>38 38</point>')"))

\* "38,38" was entered in x of a click with y left empty, and it compiled
C21_Witness ==
    /\ pc = "compiled"
    /\ action_type = "click"
    /\ entered = [x |-> PyS("38,38"), y |-> PyS("")]
    /\ params = [x |-> PyS("38"), y |-> PyS("38")]
    /\ build_result = Return(Some("click(point='<point>38 38</point>')"))

(***************************************************************************)
(* Properties of the submit handler, checked under SpecForm.               *)
(***************************************************************************)
\* the submit handler of session s has finished
SubmitReturned(s) == sessions[s].pc = "returned" /\ sessions[s].op = "submit"

\* the submit of session s left both collections as they were
NothingChanged(s) ==
    /\ samples = sessions[s].before_samples
    /\ datasets = sessions[s].before_datasets

\* what the claim asks of a submit: nothing is deleted or added unless an
\* image is available and task and action are non-empty
SubmitOnlyWhenComplete(s) ==
    /\ ~NothingChanged(s) =>
          /\ sessions[s].uploaded \/ sessions[s].was_editing # 0
          /\ sessions[s].content.task # ""
          /\ sessions[s].content.action # ""
    /\ \A x \in samples \ sessions[s].before_samples :
          x.action = sessions[s].content.action /\ x.action # ""

\* C22 as stated: a submit changes the collections only with an image, a task
\* and an action; with an incomplete or empty action nothing is deleted or
\* added and action_params is empty.
C22_EmptyActionEmptyParams ==
    \A s \in Sessions :
        SubmitReturned(s) =>
            /\ SubmitOnlyWhenComplete(s)
            /\ sessions[s].content.action = "" =>
                  NothingChanged(s) /\ sessions[s].action_params = NoParams

\* C22, amended: a submit changes the collections only with an image, a task
\* and an action; with an incomplete or empty action nothing is deleted or
\* added; action_params is empty when build_action reported the action
\* incomplete, and is {'raw': ''} when the custom action is empty.
C22_EmptyActionNotStored ==
    \A s \in Sessions :
        SubmitReturned(s) =>
            /\ SubmitOnlyWhenComplete(s)
            /\ sessions[s].content.action = "" =>
                  /\ NothingChanged(s)
                  /\ sessions[s].action_params =
                        IF sessions[s].action_type = "custom"
                        THEN [raw |-> PyS("")] ELSE NoParams

\* an edit was submitted with an incomplete click: the edited sample is still
\* there and action_params is empty
C22_Witness ==
    \E s \in Sessions :
        /\ SubmitReturned(s)
        /\ sessions[s].action_type = "click"
        /\ sessions[s].content.action = ""
        /\ sessions[s].content.task # ""
        /\ SamplesWithId(sessions[s].was_editing) # {}
        /\ sessions[s].action_params = NoParams

(***************************************************************************)
(* Properties of the two ways to add a sample, checked under SpecAdds.     *)
(***************************************************************************)
\* turns is a human turn followed by the gpt turn of thought and action
TurnsOf(thought, action, turns) ==
    /\ Len(turns) = 2
    /\ turns[1].from = "human"
    /\ turns[2].from = "gpt"
    /\ turns[2].value = IF thought = "" THEN "Action: " \o action
                        ELSE "Thought: " \o thought \o "\nAction: " \o action

\* the add_workflow_step calls that returned, in the order they were made
ReturnedSteps == SelectSeq(steps, LAMBDA c : ~c.raised)

\* add_sample has returned an id in session s
AddReturned(s) ==
    /\ sessions[s].pc = "returned"
    /\ sessions[s].op = "add"
    /\ sessions[s].exc = ""

\* self.dataset holds one entry per returned call, in call order, each with
\* the turns of its call
StepsInOrder ==
    /\ Len(dataset) = Len(ReturnedSteps)
    /\ \A i \in 1..Len(dataset) :
          TurnsOf(ReturnedSteps[i].thought, ReturnedSteps[i].action,
                  dataset[i].conversations)

\* the samples are those before the call of session s and one new sample
\* with the turns of the call
OneSampleAdded(s) ==
    \E x \in samples :
        /\ x.id = sessions[s].ret_id
        /\ x \notin sessions[s].before_samples
        /\ samples = sessions[s].before_samples \cup {x}
        /\ x.action = sessions[s].content.action
        /\ TurnsOf(sessions[s].content.thought, sessions[s].content.action,
                   x.conversations)

\* C23: every add_sample and every add_workflow_step that returns adds exactly
\* one record, a human turn followed by a gpt turn that reads
\* "Thought: <thought>\nAction: <action>" with a thought and "Action: <action>"
\* without one, the action as given; the records already there stay as they
\* are, and self.dataset keeps the order of the calls.
C23_OneRecordPerAdd ==
    /\ [](StepsInOrder /\ \A s \in Sessions : AddReturned(s) => OneSampleAdded(s))
    /\ [][/\ Len(dataset') >= Len(dataset)
          /\ SubSeq(dataset', 1, Len(dataset)) = dataset
          /\ samples \subseteq samples']_vars

\* two steps were added, the first without and the second with a thought, and
\* add_sample has returned for a sample with a thought next to an earlier one
C23_Witness ==
    /\ Len(dataset) = 2
    /\ dataset[1].conversations[2].value
          = "Action: click(point='<point>1710 100</point>')"
    /\ dataset[2].conversations[2].value
          = "Thought: Chrome is in the dock\nAction: click(point='<point>1710 100</point>')"
    /\ \E s \in Sessions :
          /\ AddReturned(s)
          /\ sessions[s].content.thought # ""
          /\ sessions[s].before_samples # {}
          /\ Cardinality(samples) = Cardinality(sessions[s].before_samples) + 1

====
